---- MODULE Spec2Model ----
(***************************************************************************)
(* A model of the bevy_playground plugins: the key binding table and the   *)
(* map_keybinds system (keybind.rs), the cursor_grab system                *)
(* (cursor_grab.rs), the free_controls system (free_control.rs), the       *)
(* fixed time step (fixed_time.rs) and the wiring of main.rs.              *)
(*                                                                         *)
(* Lengths are counted in half units (0.5 is 1), instants in nanoseconds,  *)
(* mouse motion in quarter turns of the controlled entity.                 *)
(***************************************************************************)
EXTENDS Integers, Sequences, FiniteSets, TLC

\* ------------------------------------------------------------------ bounds
MaxEdits == 2
MaxHeld == 2
MaxKeysPerFrame == 2
MaxFocusEvents == 2
MaxFrames == 4
MaxTicks == 5
MaxMotion == 1
MaxFreeFrames == 1

\* ------------------------------------------------------------- raw inputs
\* RawInput::KeyCode(..) values the model distinguishes
KeyCodes == {"KeyW", "KeyS", "KeyA", "KeyD", "KeyLShift", "KeySpace", "KeyEscape", "KeyUp"}

\* RawInput::MouseButton(..) values the model distinguishes
MouseButtons == {"MouseLeft"}

RawInput == KeyCodes \cup MouseButtons

\* enum FreeControls<T>, in the order of to_num
FreeControlsSeq == <<"Forward", "Backward", "Left", "Right", "Up", "Down", "Locked", "Unlock">>

FreeControls == {FreeControlsSeq[i] : i \in 1..Len(FreeControlsSeq)}

\* ------------------------------------------------ bevy_input's Input<T>
\* Input::<T>::default()
InputDefault == [pressed |-> {}, just_pressed |-> {}, just_released |-> {}]

\* Input::press: just_pressed only when the input was not pressed
press(inp, x) ==
    IF x \in inp.pressed THEN inp
    ELSE [inp EXCEPT !.pressed = @ \cup {x}, !.just_pressed = @ \cup {x}]

\* Input::release: just_released only when the input was pressed
release(inp, x) ==
    IF x \in inp.pressed
    THEN [inp EXCEPT !.pressed = @ \ {x}, !.just_released = @ \cup {x}]
    ELSE inp

\* Input::clear: forgets the edges, keeps pressed
clear(inp) == [inp EXCEPT !.just_pressed = {}, !.just_released = {}]

\* ------------------------------------------------------- KeyBindings<T>
\* The HashMap<RawInput, T> is the set of its entries <<input, bind>>.
\* HashMap::insert: the entry of an equal key is replaced
HashMapInsertNoReplace(m, k, v) == m \cup {<<k, v>>}

HashMapInsert(m, k, v) == {e \in m : e[1] # k} \cup {<<k, v>>}

\* HashMap::remove
HashMapRemove(m, k) == {e \in m : e[1] # k}

\* KeyBindings::bind
bind(m, input, b) == HashMapInsert(m, input, b)

\* KeyBindings::clear_bind
clear_bind(m, input) == HashMapRemove(m, input)

\* KeyBindings::rebind
rebind(m, input, b) == bind(clear_bind(m, input), input, b)

\* KeyBindingPlugin::default(): no bindings
KeyBindingPluginDefault == {}

\* FreeControlPlugin::new()
FreeControlPluginNew == KeyBindingPluginDefault

DefaultSwapped ==
    LET b1 == bind(KeyBindingPluginDefault, "KeyW", "Forward")
        b2 == bind(b1, "KeyS", "Backward")
        b3 == bind(b2, "KeyA", "Left")
        b4 == bind(b3, "KeyD", "Right")
        b5 == bind(b4, "KeyLShift", "Up")
        b6 == bind(b5, "KeySpace", "Down")
        b7 == bind(b6, "MouseLeft", "Locked")
    IN  bind(b7, "KeyEscape", "Unlock")

\* FreeControlPlugin::default()
FreeControlPluginDefault ==
    LET b1 == bind(KeyBindingPluginDefault, "KeyW", "Forward")
        b2 == bind(b1, "KeyS", "Backward")
        b3 == bind(b2, "KeyA", "Left")
        b4 == bind(b3, "KeyD", "Right")
        b5 == bind(b4, "KeyLShift", "Down")
        b6 == bind(b5, "KeySpace", "Up")
        b7 == bind(b6, "MouseLeft", "Locked")
    IN  bind(b7, "KeyEscape", "Unlock")

\* the raw inputs a table binds to the action b
InputsOf(m, b) == {e[1] : e \in {x \in m : x[2] = b}}

\* the actions a table binds the raw input k to
BindsOf(m, k) == {e[2] : e \in {x \in m : x[1] = k}}

\* the groups of a table's entries by action, each group in one of its
\* orders: entries of different actions commute in map_keybinds (press and
\* release touch one action each), so one order per arrangement of the
\* groups stands for every iteration order of the HashMap
Perms(S) ==
    {s \in [1..Cardinality(S) -> S] : \A i, j \in 1..Cardinality(S) : s[i] = s[j] => i = j}

RECURSIVE IterOrdersFrom(_, _)
IterOrdersFrom(m, i) ==
    IF i > Len(FreeControlsSeq) THEN {<<>>}
    ELSE {p \o rest : p \in Perms({e \in m : e[2] = FreeControlsSeq[i]}),
                      rest \in IterOrdersFrom(m, i + 1)}

IterOrders(m) == IterOrdersFrom(m, 1)

\* ------------------------------------------------------------------ state
VARIABLES
    pc,                  \* where the app is: plugin set-up, startup, or a stage of the frame
    edits,               \* edits made to the plugin's table so far
    last_op,             \* the last operation on the plugin's table
    frame,               \* frames run so far
    ran,                 \* the Update-stage systems that ran in this frame
    key_bindings,        \* Res<KeyBindings<T>>: the entries of the HashMap
    iter_order,          \* the order in which the HashMap iterates its entries
    key_codes,           \* Res<Input<KeyCode>>
    mouse_buttons,       \* Res<Input<MouseButton>>
    binds,               \* ResMut<Input<T>>
    hold,                \* per raw input: frames it has been held since a fresh press
    frame_start,         \* CursorGrab, the raw inputs pressed and Input<T> as the frame began
    window,              \* the primary window: focused, cursor_grab_mode, cursor_visible
    prev_window,         \* the primary window as the system that ran last in this frame found it
    last_sys,            \* the Update-stage system that ran last in this frame
    focus_events,        \* the WindowFocused events of this frame (primary window)
    motion_events,       \* the MouseMotion events of this frame
    cursor_grab_res,     \* Res<CursorGrab>
    cursor_grab_changed, \* whether CursorGrab changed since cursor_grab last ran
    switched_off,        \* 0, or 1 + the frame in which cursor_grab saw CursorGrab switched
                         \* to Inactive with the cursor Locked, CursorGrab not activated since
    transforms,          \* per entity: translation and rotation
    config,              \* Res<FreeControlConfig<T>>
    now,                 \* the real clock
    last_update,         \* Time::last_update()
    time_update_strategy \* Res<TimeUpdateStrategy>

vars == <<pc, edits, last_op, frame, ran, key_bindings, iter_order,
          key_codes, mouse_buttons, binds, hold, frame_start, window, prev_window, last_sys,
          focus_events, motion_events, cursor_grab_res, cursor_grab_changed, switched_off,
          transforms, config, now, last_update,
          time_update_strategy>>

inputVars == <<key_codes, mouse_buttons, binds, hold, frame_start>>
windowVars == <<window, prev_window, last_sys, focus_events, motion_events>>
grabVars == <<cursor_grab_res, cursor_grab_changed, switched_off>>
worldVars == <<transforms, config>>
timeVars == <<now, last_update, time_update_strategy>>
tableVars == <<key_bindings, iter_order, edits, last_op>>

\* ------------------------------------------------------- initial values
\* WindowDescriptor::default(): cursor free and visible; whether the window
\* starts focused is the platform's choice
InitWindows == {[focused |-> f, cursor_grab_mode |-> "None", cursor_visible |-> TRUE] : f \in BOOLEAN}

Identity == <<(<<1, 0, 0>>), (<<0, 1, 0>>), (<<0, 0, 1>>)>>

\* the entities that carry the marker component T (FreeCam)
Marked == {"camera"}

Entities == {"camera", "box"}

\* setup_camera_and_light, setup_environment: the camera at (0, 5, 20) looking
\* down -Z, the box at the origin (Transform::default())
InitTransforms ==
    [e \in Entities |->
        IF e = "camera" THEN [translation |-> <<0, 10, 40>>, rotation |-> Identity]
        ELSE [translation |-> <<0, 0, 0>>, rotation |-> Identity]]

\* no entity is spawned before the startup systems run
NoTransforms == [e \in {} |-> Identity]

\* 0.5, in half units
DefaultSpeed == 1

\* FreeControlConfig::default()
FreeControlConfigDefault ==
    [forward_speed |-> DefaultSpeed, backward_speed |-> DefaultSpeed,
     left_speed |-> DefaultSpeed, right_speed |-> DefaultSpeed,
     up_speed |-> DefaultSpeed, down_speed |-> DefaultSpeed]

\* a configuration an application may insert before adding the plugin
FreeControlConfigCustom ==
    [forward_speed |-> 3, backward_speed |-> 2, left_speed |-> 1,
     right_speed |-> 2, up_speed |-> 4, down_speed |-> 1]

\* CursorGrabPlugin::build: insert_resource(CursorGrab::Inactive)
CursorGrabAtBuild == "Inactive"

\* Time::last_update() before the first update
None == [some |-> FALSE, instant |-> 0]

\* TimeUpdateStrategy::default()
Automatic == [kind |-> "Automatic", instant |-> 0]

NoOp == [op |-> "none", input |-> "-", bind |-> "-"]

\* everything but the table, as App::new() and the plugins' build leave it
InitRuntime(windows) ==
    /\ frame = 0
    /\ ran = {}
    /\ key_codes = InputDefault
    /\ mouse_buttons = InputDefault
    /\ binds = InputDefault
    /\ hold = [k \in RawInput |-> 0]
    /\ frame_start = [cursor_grab |-> CursorGrabAtBuild, raw_pressed |-> {}, binds |-> InputDefault]
    /\ window \in windows
    /\ prev_window = window
    /\ last_sys = "none"
    /\ focus_events = <<>>
    /\ motion_events = <<>>
    /\ cursor_grab_res = CursorGrabAtBuild
    /\ cursor_grab_changed = TRUE
    /\ switched_off = 0
    /\ transforms = NoTransforms
    /\ now = 0
    /\ last_update = None
    /\ time_update_strategy = Automatic

\* --------------------------------------------- setting up the plugin's table
\* FreeControlPlugin::new() or FreeControlPlugin::default()
InitBind ==
    /\ pc = "plugin"
    /\ edits = 0
    /\ \/ key_bindings = FreeControlPluginNew /\ last_op = [NoOp EXCEPT !.op = "new"]
       \/ key_bindings = FreeControlPluginDefault /\ last_op = [NoOp EXCEPT !.op = "default"]
    /\ iter_order = <<>>
    /\ config = FreeControlConfigDefault
    /\ InitRuntime({w \in InitWindows : w.focused})

\* KeyBindingPlugin::bind
Bind(input, b) ==
    /\ pc = "plugin" /\ edits < MaxEdits
    /\ key_bindings' = bind(key_bindings, input, b)
    /\ last_op' = [op |-> "bind", input |-> input, bind |-> b]
    /\ edits' = edits + 1
    /\ UNCHANGED <<pc, frame, ran, iter_order, inputVars, windowVars, grabVars, worldVars, timeVars>>

\* KeyBindingPlugin::clear_bind
ClearBind(input) ==
    /\ pc = "plugin" /\ edits < MaxEdits
    /\ key_bindings' = clear_bind(key_bindings, input)
    /\ last_op' = [op |-> "clear_bind", input |-> input, bind |-> "-"]
    /\ edits' = edits + 1
    /\ UNCHANGED <<pc, frame, ran, iter_order, inputVars, windowVars, grabVars, worldVars, timeVars>>

\* KeyBindingPlugin::rebind
Rebind(input, b) ==
    /\ pc = "plugin" /\ edits < MaxEdits
    /\ key_bindings' = rebind(key_bindings, input, b)
    /\ last_op' = [op |-> "rebind", input |-> input, bind |-> b]
    /\ edits' = edits + 1
    /\ UNCHANGED <<pc, frame, ran, iter_order, inputVars, windowVars, grabVars, worldVars, timeVars>>

\* the raw inputs an application edits: one bound by default, one not, one mouse button
EditInputs == {"KeyW", "KeyUp", "MouseLeft"}

NextBind ==
    \/ \E input \in EditInputs, b \in FreeControls : Bind(input, b)
    \/ \E input \in EditInputs : ClearBind(input)
    \/ \E input \in EditInputs, b \in FreeControls : Rebind(input, b)

SpecBind == InitBind /\ [][NextBind]_vars

\* ---------------------------------------------------- the window's events
\* sequences over S of length at most n
RECURSIVE SeqsUpTo(_, _)
SeqsUpTo(S, n) ==
    IF n = 0 THEN {<<>>}
    ELSE LET shorter == SeqsUpTo(S, n - 1)
         IN  shorter \cup {Append(q, x) : q \in {r \in shorter : Len(r) = n - 1}, x \in S}

\* keyboard_input_system / mouse_button_input_system, the loop over the
\* events: Pressed presses, Released releases; dom is the system's device
RECURSIVE ApplyEvents(_, _, _, _)
ApplyEvents(inp, evs, i, dom) ==
    IF i > Len(evs) THEN inp
    ELSE LET ev == evs[i]
             next == IF ev[1] \notin dom THEN inp
                     ELSE IF ev[2] = "Pressed" THEN press(inp, ev[1])
                     ELSE release(inp, ev[1])
         IN  ApplyEvents(next, evs, i + 1, dom)

\* bevy_input's input systems: clear the edges, then apply the frame's events
InputSystemOf(inp, evs, dom) == ApplyEvents(clear(inp), evs, 1, dom)

\* the raw inputs pressed in the two device resources
RawPressed(kc, mb) == kc.pressed \cup mb.pressed

HasRelease(k, evs) == \E i \in 1..Len(evs) : evs[i] = <<k, "Released">>

\* the event loop between two frames: focus changes of the primary window
\* (the window's focused flag follows the last one) and mouse motion arrive
\* before the frame's update
winit_events(focusSeqs, motionSeqs, frames) ==
    /\ pc = "winit" /\ frame < frames
    /\ \E fs \in focusSeqs :
          /\ focus_events' = fs
          /\ window' = IF fs = <<>> THEN window ELSE [window EXCEPT !.focused = fs[Len(fs)]]
    /\ motion_events' \in motionSeqs
    /\ pc' = "input"
    /\ UNCHANGED <<frame, ran, prev_window, last_sys, key_codes, mouse_buttons, binds, hold, frame_start, tableVars, grabVars,
                   worldVars, timeVars>>

\* what the user does to one raw input between two frames
Taps == {<<"Pressed">>, <<"Released">>}

Gestures == Taps \cup {<<"Pressed", "Released">>, <<"Released", "Pressed">>}

\* the events of a frame: the gesture g[k] of every operated input k, input
\* after input in the order of `all` (the events of different inputs commute
\* in the input systems, so their interleaving is not enumerated)
RECURSIVE EventsOf(_, _, _)
EventsOf(g, all, i) ==
    IF i > Len(all) THEN <<>>
    ELSE IF all[i] \in DOMAIN g
         THEN [j \in 1..Len(g[all[i]]) |-> <<all[i], g[all[i]][j]>>] \o EventsOf(g, all, i + 1)
         ELSE EventsOf(g, all, i + 1)

RawInputSeq ==
    <<"KeyW", "KeyS", "KeyA", "KeyD", "KeyLShift", "KeySpace", "KeyEscape", "KeyUp", "MouseLeft">>

FrameEvents(inputs, gestures) ==
    {EventsOf(g, RawInputSeq, 1) :
        g \in UNION {[K -> gestures] :
                        K \in {X \in SUBSET inputs : Cardinality(X) <= MaxKeysPerFrame}}}

\* InputSystem (PreUpdate): keyboard_input_system and mouse_button_input_system
\* read the frame's key and button events, which come from the inputs the
\* user operates, at most MaxHeld of them held at once
input_system(inputs, gestures) ==
    /\ pc = "input"
    /\ \E evs \in FrameEvents(inputs, gestures) :
          /\ key_codes' = InputSystemOf(key_codes, evs, KeyCodes)
          /\ mouse_buttons' = InputSystemOf(mouse_buttons, evs, MouseButtons)
          /\ Cardinality(RawPressed(key_codes', mouse_buttons')) <= MaxHeld
          /\ hold' = [k \in RawInput |->
                        IF k \notin RawPressed(key_codes', mouse_buttons') \/ HasRelease(k, evs)
                        THEN 0
                        ELSE IF k \notin RawPressed(key_codes, mouse_buttons) THEN 1
                        ELSE IF hold[k] >= 1 THEN hold[k] + 1
                        ELSE 0]
    /\ frame_start' = [cursor_grab |-> cursor_grab_res,
                       raw_pressed |-> RawPressed(key_codes, mouse_buttons),
                       binds |-> binds]
    /\ pc' = "map"
    /\ UNCHANGED <<frame, ran, binds, tableVars, windowVars, grabVars, worldVars, timeVars>>

\* ------------------------------------------------------------ map_keybinds
\* the body of the loop of map_keybinds for one entry of the table
MapEntry(b, e, kc, mb) ==
    LET raw == IF e[1] \in KeyCodes THEN kc ELSE mb
        b1 == IF e[1] \in raw.pressed THEN press(b, e[2]) ELSE b
    IN  IF e[1] \in raw.just_released THEN release(b1, e[2]) ELSE b1

RECURSIVE MapFold(_, _, _, _, _)
MapFold(b, order, i, kc, mb) ==
    IF i > Len(order) THEN b
    ELSE MapFold(MapEntry(b, order[i], kc, mb), order, i + 1, kc, mb)

\* the function map_keybinds computes: clear, then the loop over the table
MapKeybindsNoClear(kc, mb, order, b) == MapFold(b, order, 1, kc, mb)

MapKeybinds(kc, mb, order, b) == MapFold(clear(b), order, 1, kc, mb)

\* map_keybinds (PreUpdate, after InputSystem)
map_keybinds_not_run ==
    /\ pc = "map"
    /\ binds' = binds
    /\ pc' = "update"
    /\ ran' = {}
    /\ last_sys' = "none"
    /\ prev_window' = window
    /\ UNCHANGED <<frame, key_codes, mouse_buttons, hold, frame_start, tableVars, window, focus_events,
                   motion_events, grabVars, worldVars, timeVars>>

map_keybinds ==
    /\ pc = "map"
    /\ binds' = MapKeybinds(key_codes, mouse_buttons, iter_order, binds)
    /\ pc' = "update"
    /\ ran' = {}
    /\ last_sys' = "none"
    /\ prev_window' = window
    /\ UNCHANGED <<frame, key_codes, mouse_buttons, hold, frame_start, tableVars, window, focus_events,
                   motion_events, grabVars, worldVars, timeVars>>

\* the end of the frame: every system of the Update stage has run
end_frame(systems) ==
    /\ pc = "update" /\ ran = systems
    /\ pc' = "winit"
    /\ frame' = frame + 1
    /\ UNCHANGED <<ran, inputVars, tableVars, windowVars, grabVars, worldVars, timeVars>>

\* ---------------------------------------- an app with the key bindings only
\* the tables the key binding plugin is built with
KeyTables ==
    {FreeControlPluginDefault,
     bind(FreeControlPluginDefault, "KeyUp", "Forward"),
     bind(bind(FreeControlPluginNew, "KeyW", "Forward"), "KeyUp", "Forward")}

\* KeyBindingPlugin::build: the table is inserted as a resource, Input<T> is empty
InitKeys ==
    /\ pc = "winit"
    /\ edits = 0
    /\ last_op = NoOp
    /\ key_bindings \in KeyTables
    /\ iter_order \in IterOrders(key_bindings)
    /\ config = FreeControlConfigDefault
    /\ InitRuntime({w \in InitWindows : w.focused})

\* the raw inputs the user operates: two keys of one action and a mouse button
KeysInputs == {"KeyW", "KeyUp", "MouseLeft"}

NextKeys ==
    \/ winit_events({<<>>}, {<<>>}, MaxFrames)
    \/ input_system(KeysInputs, Gestures)
    \/ map_keybinds
    \/ end_frame({})

SpecKeys == InitKeys /\ [][NextKeys]_vars

\* ------------------------------------------------------------ cursor_grab
\* the closure release of cursor_grab (the cursor's position, set to the
\* centre of the window and read nowhere, is not part of the window here)
cursor_release(w) == [w EXCEPT !.cursor_grab_mode = "None", !.cursor_visible = TRUE]

\* the closure grab of cursor_grab
cursor_grab_only(w) == [w EXCEPT !.cursor_grab_mode = "Locked"]

cursor_grab_lock(w) == [w EXCEPT !.cursor_grab_mode = "Locked", !.cursor_visible = FALSE]

\* what cursor_grab does to the primary window
CursorGrabWindowNoFocusCheck(res, changed, events, w) ==
    IF res = "Active"
    THEN IF changed /\ w.focused THEN cursor_grab_lock(w)
         ELSE IF events # <<>> THEN cursor_grab_lock(w)
         ELSE w
    ELSE IF changed /\ w.cursor_grab_mode # "None" THEN cursor_release(w) ELSE w

CursorGrabWindowIgnoresResource(res, changed, events, w) ==
    IF changed /\ w.focused /\ res = "Active" THEN cursor_grab_lock(w)
    ELSE IF changed /\ res = "Inactive" /\ w.cursor_grab_mode # "None" THEN cursor_release(w)
    ELSE IF events # <<>>
         THEN IF w.focused THEN cursor_grab_lock(w) ELSE cursor_release(w)
    ELSE w

CursorGrabWindow(res, changed, events, w) ==
    IF res = "Active"
    THEN IF changed /\ w.focused THEN cursor_grab_lock(w)
         ELSE IF events # <<>>
              THEN IF w.focused THEN cursor_grab_lock(w) ELSE cursor_release(w)
         ELSE w
    ELSE IF changed /\ w.cursor_grab_mode # "None" THEN cursor_release(w) ELSE w

\* the system cursor_grab, which runs after the systems in `after`; having
\* run, it has seen every change of CursorGrab so far
cursor_grab(after) ==
    /\ pc = "update" /\ "cursor_grab" \notin ran /\ after \subseteq ran
    /\ window' = CursorGrabWindow(cursor_grab_res, cursor_grab_changed, focus_events, window)
    /\ prev_window' = window
    /\ last_sys' = "cursor_grab"
    /\ cursor_grab_changed' = FALSE
    /\ switched_off' = IF /\ cursor_grab_res = "Inactive" /\ cursor_grab_changed
                          /\ window.cursor_grab_mode = "Locked"
                       THEN frame + 1
                       ELSE switched_off
    /\ ran' = ran \cup {"cursor_grab"}
    /\ UNCHANGED <<pc, frame, cursor_grab_res, focus_events, motion_events, inputVars,
                   tableVars, worldVars, timeVars>>

\* ------------------------------------------------------------------ main.rs
\* toggle_cursor_grab: the left button activates, then escape deactivates
ToggleActivates(res, kc, mb) == "MouseLeft" \in mb.just_pressed /\ res = "Inactive"

ToggleAfterFirst(res, kc, mb) == IF ToggleActivates(res, kc, mb) THEN "Active" ELSE res

ToggleDeactivates(res, kc, mb) ==
    "KeyEscape" \in kc.just_pressed /\ ToggleAfterFirst(res, kc, mb) = "Active"

toggle_cursor_grab ==
    /\ pc = "update" /\ "toggle_cursor_grab" \notin ran
    /\ cursor_grab_res' = IF ToggleDeactivates(cursor_grab_res, key_codes, mouse_buttons)
                          THEN "Inactive"
                          ELSE ToggleAfterFirst(cursor_grab_res, key_codes, mouse_buttons)
    /\ cursor_grab_changed' = (\/ cursor_grab_changed
                               \/ ToggleActivates(cursor_grab_res, key_codes, mouse_buttons)
                               \/ ToggleDeactivates(cursor_grab_res, key_codes, mouse_buttons))
    /\ switched_off' = IF ToggleActivates(cursor_grab_res, key_codes, mouse_buttons)
                       THEN 0
                       ELSE switched_off
    /\ ran' = ran \cup {"toggle_cursor_grab"}
    /\ UNCHANGED <<pc, frame, inputVars, tableVars, windowVars, worldVars, timeVars>>

\* the startup systems: setup_camera_and_light and setup_environment spawn the
\* entities, setup_environment activates CursorGrab
startup ==
    /\ pc = "startup"
    /\ transforms' = InitTransforms
    /\ cursor_grab_res' = "Active"
    /\ cursor_grab_changed' = TRUE
    /\ switched_off' = 0
    /\ pc' = "winit"
    /\ UNCHANGED <<frame, ran, config, inputVars, tableVars, windowVars, timeVars>>

\* ----------------------------------------------------------- free_controls
VAdd(u, v) == <<u[1] + v[1], u[2] + v[2], u[3] + v[3]>>

VScale(v, c) == <<v[1] * c, v[2] * c, v[3] * c>>

VNeg(v) == VScale(v, -1)

\* cosine and sine of n quarter turns
Cos4(n) == <<1, 0, -1, 0>>[(n % 4) + 1]

Sin4(n) == <<0, 1, 0, -1>>[(n % 4) + 1]

\* a rotation is the images <<right, up, back>> of the axes X, Y, Z
\* Transform::forward, back, left, right, up, down
forward(t) == VNeg(t.rotation[3])

back(t) == t.rotation[3]

left(t) == VNeg(t.rotation[1])

right(t) == t.rotation[1]

up(t) == t.rotation[2]

down(t) == VNeg(t.rotation[2])

\* Quat::from_rotation_y(n quarter turns) applied to a vector
RotY(n, v) == <<v[1] * Cos4(n) + v[3] * Sin4(n), v[2], v[3] * Cos4(n) - v[1] * Sin4(n)>>

\* yaw * rotation: the rotation turned about the global y axis
YawGlobal(n, r) == <<RotY(n, r[1]), RotY(n, r[2]), RotY(n, r[3])>>

\* rotation * pitch: the rotation turned about its own x axis
PitchLocal(n, r) ==
    <<r[1],
      VAdd(VScale(r[2], Cos4(n)), VScale(r[3], Sin4(n))),
      VAdd(VScale(r[3], Cos4(n)), VScale(r[2], -Sin4(n)))>>

\* the sum of the frame's mouse motion; a unit of x is half the window's
\* width, a unit of y the window's height, so that after the factor 0.5 a
\* unit turns the entity by a quarter turn
RECURSIVE SumMotion(_, _)
SumMotion(ms, i) ==
    IF i > Len(ms) THEN <<0, 0>>
    ELSE LET rest == SumMotion(ms, i + 1)
         IN  <<ms[i][1] + rest[1], ms[i][2] + rest[2]>>

\* the rotation part of the loop body of free_controls
Rotate(t, move) ==
    IF move # <<0, 0>>
    THEN [t EXCEPT !.rotation = PitchLocal(-move[2], YawGlobal(-move[1], @))]
    ELSE t

\* the closure handle of free_controls: a pressed input moves the entity along
\* its direction by the speed
handle(t, b, input, dir, speed) ==
    IF input \in b.pressed
    THEN [t EXCEPT !.translation = VAdd(@, VScale(dir, speed))]
    ELSE t

\* the six calls of handle
HandleAllBackIsForward(t, b, c) ==
    LET t1 == handle(t, b, "Forward", forward(t), c.forward_speed)
        t2 == handle(t1, b, "Backward", forward(t1), c.backward_speed)
        t3 == handle(t2, b, "Left", left(t2), c.left_speed)
        t4 == handle(t3, b, "Right", right(t3), c.right_speed)
        t5 == handle(t4, b, "Up", up(t4), c.up_speed)
    IN  handle(t5, b, "Down", down(t5), c.down_speed)

HandleAll(t, b, c) ==
    LET t1 == handle(t, b, "Forward", forward(t), c.forward_speed)
        t2 == handle(t1, b, "Backward", back(t1), c.backward_speed)
        t3 == handle(t2, b, "Left", left(t2), c.left_speed)
        t4 == handle(t3, b, "Right", right(t3), c.right_speed)
        t5 == handle(t4, b, "Up", up(t4), c.up_speed)
    IN  handle(t5, b, "Down", down(t5), c.down_speed)

\* what free_controls does to the primary window: Locked, then Unlock
FreeControlsWindow(w, b) ==
    LET w1 == IF "Locked" \in b.just_pressed /\ w.cursor_grab_mode # "Locked"
              THEN [w EXCEPT !.cursor_grab_mode = "Locked", !.cursor_visible = FALSE]
              ELSE w
    IN  IF "Unlock" \in b.just_pressed
        THEN [w1 EXCEPT !.cursor_grab_mode = "None", !.cursor_visible = TRUE]
        ELSE w1

\* the entities of Query<&mut Transform, With<T>>
QueryWithT(ts) == DOMAIN ts \cap Marked

\* what free_controls does to the transforms once the window is as w
FreeControlsTransforms(w, ms, b, c, ts) ==
    IF w.cursor_grab_mode = "Locked"
    THEN [e \in DOMAIN ts |->
            IF e \in QueryWithT(ts) THEN HandleAll(Rotate(ts[e], SumMotion(ms, 1)), b, c)
            ELSE ts[e]]
    ELSE ts

\* the system free_controls
free_controls ==
    /\ pc = "update" /\ "free_controls" \notin ran
    /\ window' = FreeControlsWindow(window, binds)
    /\ prev_window' = window
    /\ last_sys' = "free_controls"
    /\ transforms' = FreeControlsTransforms(window', motion_events, binds, config, transforms)
    /\ ran' = ran \cup {"free_controls"}
    /\ UNCHANGED <<pc, frame, config, focus_events, motion_events, inputVars, tableVars,
                   grabVars, timeVars>>

\* ------------------------------------------------------- the app of main.rs
\* the Update-stage systems of the app modelled here
AppSystems == {"toggle_cursor_grab", "cursor_grab", "free_controls"}

\* main: FreeControlPlugin::<FreeCam>::default() and CursorGrabPlugin are built
InitApp ==
    /\ pc = "startup"
    /\ edits = 0
    /\ last_op = NoOp
    /\ key_bindings = FreeControlPluginDefault
    /\ iter_order \in IterOrders(key_bindings)
    /\ config = FreeControlConfigDefault
    /\ InitRuntime(InitWindows)

\* one frame of the app: the systems of the Update stage run once each, in
\* any order that has toggle_cursor_grab before cursor_grab
NextApp(inputs, gestures, focusSeqs, motionSeqs, frames) ==
    \/ startup
    \/ winit_events(focusSeqs, motionSeqs, frames)
    \/ input_system(inputs, gestures)
    \/ map_keybinds
    \/ toggle_cursor_grab
    \/ cursor_grab({"toggle_cursor_grab"})
    \/ free_controls
    \/ end_frame(AppSystems)

\* the inputs that drive the cursor grab
GrabInputs == {"MouseLeft", "KeyEscape"}

FocusSeqs == SeqsUpTo(BOOLEAN, MaxFocusEvents)

\* the app with the user clicking, pressing escape and switching windows
Spec == InitApp /\ [][NextApp(GrabInputs, Gestures, FocusSeqs, {<<>>}, MaxFrames)]_vars

\* the inputs of the six directions
FlyInputs == {"KeyW", "KeyS", "KeyA", "KeyD", "KeyLShift", "KeySpace"}

MotionDeltas == {<<1, 0>>, <<0, 1>>}

MotionSeqs == SeqsUpTo(MotionDeltas, MaxMotion)

\* an application that inserts its own FreeControlConfig before the plugin
InitFree ==
    /\ pc = "startup"
    /\ edits = 0
    /\ last_op = NoOp
    /\ key_bindings = FreeControlPluginDefault
    /\ iter_order \in IterOrders(key_bindings)
    /\ config \in {FreeControlConfigDefault, FreeControlConfigCustom}
    /\ InitRuntime(InitWindows)

\* the app with the user flying the camera
SpecFree == InitFree /\ [][NextApp(FlyInputs, Taps, {<<>>}, MotionSeqs, MaxFreeFrames)]_vars

\* -------------------------------------------------------------- fixed_time
\* Duration::from_secs_f64(1.0 / 60.0), in nanoseconds
FixedDelta == 16666667

\* the instant fixed_time_step asks the next update to use
ManualInstantTwice(last) ==
    [kind |-> "ManualInstant", instant |-> last.instant + 2 * FixedDelta]

ManualInstant(last) == [kind |-> "ManualInstant", instant |-> last.instant + FixedDelta]

\* bevy_time's time_system (First stage): Time::update_with_instant with the
\* real instant, or with the one the strategy names
TimeUpdate(strategy, real) ==
    [some |-> TRUE, instant |-> IF strategy.kind = "Automatic" THEN real ELSE strategy.instant]

\* the real time a frame takes, in nanoseconds: short, on time, long
FrameTimes == {1000000, FixedDelta, 50000000}

time_system ==
    /\ pc = "time" /\ frame < MaxTicks
    /\ \E elapsed \in FrameTimes : now' = now + elapsed
    /\ last_update' = TimeUpdate(time_update_strategy, now')
    /\ pc' = "fixed"
    /\ UNCHANGED <<frame, ran, time_update_strategy, inputVars, tableVars, windowVars,
                   grabVars, worldVars>>

\* fixed_time_step (Update stage); last_update().unwrap() is of an update that happened
fixed_time_step ==
    /\ pc = "fixed" /\ last_update.some
    /\ time_update_strategy' = ManualInstant(last_update)
    /\ pc' = "time"
    /\ frame' = frame + 1
    /\ UNCHANGED <<ran, now, last_update, inputVars, tableVars, windowVars, grabVars, worldVars>>

\* an app with TimePlugin and FixedTimePlugin
InitTime ==
    /\ pc = "time"
    /\ edits = 0
    /\ last_op = NoOp
    /\ key_bindings = KeyBindingPluginDefault
    /\ iter_order = <<>>
    /\ config = FreeControlConfigDefault
    /\ InitRuntime({w \in InitWindows : w.focused})

NextTime == time_system \/ fixed_time_step

SpecTime == InitTime /\ [][NextTime]_vars

\* ------------------------------------------------------------ C8, C9
\* C8: FreeControlPlugin::new() has an empty table; FreeControlPlugin::default()
\* binds W to Forward, S to Backward, A to Left, D to Right, left shift to Down
\* and space to Up
C8_DefaultBindings ==
    /\ last_op.op = "new" => key_bindings = {}
    /\ last_op.op = "default" =>
         /\ BindsOf(key_bindings, "KeyW") = {"Forward"}
         /\ BindsOf(key_bindings, "KeyS") = {"Backward"}
         /\ BindsOf(key_bindings, "KeyA") = {"Left"}
         /\ BindsOf(key_bindings, "KeyD") = {"Right"}
         /\ BindsOf(key_bindings, "KeyLShift") = {"Down"}
         /\ BindsOf(key_bindings, "KeySpace") = {"Up"}

C8_Witness == last_op.op = "default" /\ key_bindings # {} /\ edits = 0

\* a rebind step maps the input to the bind, leaves every other input's
\* binding alone, and gives the table bind alone gives
RebindStep ==
    (last_op'.op = "rebind" /\ edits' = edits + 1) =>
        /\ BindsOf(key_bindings', last_op'.input) = {last_op'.bind}
        /\ \A k \in RawInput \ {last_op'.input} :
               BindsOf(key_bindings', k) = BindsOf(key_bindings, k)
        /\ key_bindings' = bind(key_bindings, last_op'.input, last_op'.bind)

AtMostOneBind == \A k \in RawInput : Cardinality(BindsOf(key_bindings, k)) <= 1

\* C9: rebind(i, b) yields the table in which i maps to b and every other
\* input is as before, the same table bind(i, b) yields; every raw input is
\* bound to at most one action after any sequence of bind, clear_bind, rebind
C9_Rebind == [][RebindStep]_vars /\ []AtMostOneBind

C9_Witness ==
    /\ last_op.op = "rebind" /\ edits = 2
    /\ BindsOf(key_bindings, "KeyW") = {"Up"}
    /\ BindsOf(key_bindings, "KeyS") = {"Backward"}

\* ------------------------------------------------------------ C1, C2
\* the entries of the table whose action is bound to that one raw input only
SingleBound == {e \in key_bindings : InputsOf(key_bindings, e[2]) = {e[1]}}

\* C1: when action A is bound to the one raw input K, K was not pressed in
\* the frame before and is held without a release from this frame on, then
\* after map_keybinds A is just_pressed in the first frame of the hold and not
\* in the later ones, and A is pressed in all of them
C1_PressEdge ==
    pc = "update" =>
        \A e \in SingleBound :
            /\ hold[e[1]] = 1 => e[2] \in binds.just_pressed /\ e[2] \in binds.pressed
            /\ hold[e[1]] > 1 => e[2] \notin binds.just_pressed /\ e[2] \in binds.pressed

C1_Witness ==
    /\ pc = "update"
    /\ <<"MouseLeft", "Locked">> \in SingleBound
    /\ hold["MouseLeft"] = 3
    /\ "Locked" \in binds.pressed /\ "Locked" \notin binds.just_pressed

\* C2: after map_keybinds an action is pressed exactly when a raw input bound
\* to it is pressed in that frame
C2_PressedIff ==
    pc = "update" =>
        \A a \in FreeControls :
            a \in binds.pressed <=>
                InputsOf(key_bindings, a) \cap RawPressed(key_codes, mouse_buttons) # {}

\* ------------------------------------------------------ C3, C4, C5, C7
\* cursor_grab has just run in this frame, with CursorGrab as res
CursorGrabRan(res) == pc = "update" /\ last_sys = "cursor_grab" /\ cursor_grab_res = res

\* C3: with CursorGrab Active, in the frame in which the primary window has
\* just lost focus (a WindowFocused event is pending, the window is
\* unfocused), cursor_grab leaves the grab mode None and the cursor visible
C3_FocusLost ==
    (CursorGrabRan("Active") /\ focus_events # <<>> /\ ~window.focused) =>
        (window.cursor_grab_mode = "None" /\ window.cursor_visible)

C3_Witness ==
    /\ CursorGrabRan("Active") /\ focus_events # <<>> /\ ~window.focused
    /\ prev_window.cursor_grab_mode = "Locked" /\ ~prev_window.cursor_visible
    /\ window.cursor_grab_mode = "None" /\ window.cursor_visible

\* C4: with CursorGrab Active, in the frame in which the primary window has
\* just gained focus (a WindowFocused event is pending, the window is
\* focused), cursor_grab leaves the grab mode Locked and the cursor hidden
C4_FocusGained ==
    (CursorGrabRan("Active") /\ focus_events # <<>> /\ window.focused) =>
        (window.cursor_grab_mode = "Locked" /\ ~window.cursor_visible)

C4_Witness ==
    /\ CursorGrabRan("Active") /\ focus_events # <<>> /\ window.focused
    /\ frame >= 2
    /\ prev_window.cursor_grab_mode = "None" /\ prev_window.cursor_visible
    /\ window.cursor_grab_mode = "Locked" /\ ~window.cursor_visible

\* C5: CursorGrab starts Inactive, and a run of cursor_grab with CursorGrab
\* Inactive neither sets the grab mode to Locked nor hides the cursor
C5_InactiveNeverGrabs ==
    /\ pc = "startup" => cursor_grab_res = "Inactive"
    /\ CursorGrabRan("Inactive") =>
         /\ window.cursor_grab_mode = "Locked" => prev_window.cursor_grab_mode = "Locked"
         /\ ~window.cursor_visible => ~prev_window.cursor_visible

C5_Witness ==
    /\ CursorGrabRan("Inactive") /\ focus_events # <<>> /\ window.focused
    /\ window.cursor_grab_mode = "None" /\ window.cursor_visible

\* C7: when cursor_grab sees CursorGrab switched from Active to Inactive with
\* the cursor Locked, it leaves the grab mode None and the cursor visible, and
\* they are so at the end of every later frame until CursorGrab is activated
C7_SwitchedOffStays ==
    /\ (CursorGrabRan("Inactive") /\ switched_off = frame + 1) =>
           (window.cursor_grab_mode = "None" /\ window.cursor_visible)
    /\ (pc = "winit" /\ switched_off > 0 /\ frame > switched_off) =>
           (window.cursor_grab_mode = "None" /\ window.cursor_visible)

\* ------------------------------------------------------------------ C6
\* C6: once fixed_time_step has run, every update of Time sets the last
\* update to the one before plus 1/60 s, whatever real time went by
C6_FixedTick ==
    [][(pc = "time" /\ pc' = "fixed" /\ time_update_strategy.kind = "ManualInstant") =>
           last_update'.instant = last_update.instant + FixedDelta]_vars

C6_Witness ==
    /\ pc = "fixed" /\ frame >= 2
    /\ time_update_strategy.kind = "ManualInstant"
    /\ last_update.instant = time_update_strategy.instant
    /\ last_update.instant # now

\* ------------------------------------------------------------------ C10
\* the move of a transform the pressed directions of b add up to
PressedMove(t, b, c) ==
    LET term(input, dir, speed) == IF input \in b.pressed THEN VScale(dir, speed) ELSE <<0, 0, 0>>
    IN  VAdd(VAdd(VAdd(term("Forward", forward(t), c.forward_speed),
                       term("Backward", back(t), c.backward_speed)),
                  VAdd(term("Left", left(t), c.left_speed),
                       term("Right", right(t), c.right_speed))),
             VAdd(term("Up", up(t), c.up_speed),
                  term("Down", down(t), c.down_speed)))

\* C10: when the grab mode is Locked once free_controls has handled Locked and
\* Unlock, every entity with T moves by the sum, over the pressed directions,
\* of its direction vector times the configured speed; the others stay
C10_Controls ==
    [][("free_controls" \notin ran /\ "free_controls" \in ran'
            /\ window'.cursor_grab_mode = "Locked") =>
           \A e \in DOMAIN transforms :
               IF e \in Marked
               THEN transforms'[e].translation =
                        VAdd(transforms[e].translation,
                             PressedMove(transforms'[e], binds, config))
               ELSE transforms'[e] = transforms[e]]_vars

C10_Witness ==
    /\ last_sys = "free_controls" /\ window.cursor_grab_mode = "Locked"
    /\ {"Forward", "Up"} \subseteq binds.pressed
    /\ config = FreeControlConfigCustom
    /\ transforms["camera"].rotation # Identity
    /\ transforms["camera"].translation # InitTransforms["camera"].translation
    /\ transforms["box"] = InitTransforms["box"]

\* ------------------------------------------------------------------ C11
\* cursor_grab calls its closure grab, which sets the grab mode to Locked
CursorGrabCallsGrab(res, changed, events, w) ==
    /\ res = "Active"
    /\ \/ changed /\ w.focused
       \/ events # <<>> /\ w.focused

\* free_controls calls set_cursor_grab_mode(Locked)
FreeControlsCallsLock(w, b) == "Locked" \in b.just_pressed /\ w.cursor_grab_mode # "Locked"

\* C11: neither cursor_grab nor free_controls sets the grab mode to Locked on
\* a window whose grab mode is Locked already
C11_NeverRelock ==
    [][/\ ("cursor_grab" \notin ran /\ "cursor_grab" \in ran'
            /\ CursorGrabCallsGrab(cursor_grab_res, cursor_grab_changed, focus_events, window)) =>
               window.cursor_grab_mode # "Locked"
       /\ ("free_controls" \notin ran /\ "free_controls" \in ran'
            /\ FreeControlsCallsLock(window, binds)) =>
               window.cursor_grab_mode # "Locked"]_vars

\* ------------------------------------------------------------------ C12
\* every system of the Update stage has run in this frame
FrameDone == pc = "update" /\ ran = AppSystems

\* the left button is just pressed in a frame that CursorGrab began Inactive,
\* with the primary window focused
ClickWhileInactive ==
    /\ "MouseLeft" \in mouse_buttons.just_pressed
    /\ frame_start.cursor_grab = "Inactive"
    /\ window.focused

\* C12: when the left button is just pressed in a frame where CursorGrab is
\* Inactive and the window focused, at the end of that frame CursorGrab is
\* Active and the cursor Locked and hidden
C12_ClickLocks ==
    (FrameDone /\ ClickWhileInactive) =>
        /\ cursor_grab_res = "Active"
        /\ window.cursor_grab_mode = "Locked" /\ ~window.cursor_visible

RawJustReleased(kc, mb) == kc.just_released \cup mb.just_released

RawJustPressed(kc, mb) == kc.just_pressed \cup mb.just_pressed

\* C14: when action A is bound to the one raw input K, in the frame in which
\* K, held as the frame began, is just released, after map_keybinds A is
\* just_released and not pressed; and A is not just_released in a frame in
\* which K is not just released
C14_ReleaseEdge ==
    pc = "update" =>
        \A e \in SingleBound :
            /\ (/\ e[1] \in frame_start.raw_pressed
                /\ e[1] \in RawJustReleased(key_codes, mouse_buttons)
                /\ e[1] \notin RawPressed(key_codes, mouse_buttons)) =>
                   (e[2] \in binds.just_released /\ e[2] \notin binds.pressed)
            /\ e[1] \notin RawJustReleased(key_codes, mouse_buttons) =>
                   e[2] \notin binds.just_released

\* C15: when a raw input K bound to action A (and A to K only) is just pressed
\* in a frame, also when it is released again within the frame, A is
\* just_pressed after map_keybinds in that frame
C15_NoLostPress ==
    pc = "update" =>
        \A e \in SingleBound :
            e[1] \in RawJustPressed(key_codes, mouse_buttons) => e[2] \in binds.just_pressed

====
